---- MODULE Spec2Model ----
(***************************************************************************)
(* Model of MarkovTransitionGenerator (src/markov_generator.py).           *)
(*                                                                         *)
(* Representation.                                                         *)
(*   - A text is a sequence of one-character strings.                      *)
(*   - A word (token) is a sequence of lower-case one-character strings,   *)
(*     so 'the' is <<"t","h","e">> and '.' is <<".">>.                     *)
(*   - A state (context) is a sequence of words.  Python keeps a bare word *)
(*     as the key when order = 1 and a tuple of words otherwise; here the  *)
(*     bare word w is written <<w>>.  Every test the code makes on the     *)
(*     shape of a key (k != '.', word in dice_mappings) is modelled with   *)
(*     the order made explicit, see IsPeriod and AvailableStarters.        *)
(*   - A Python dict / Counter is a sequence of <<key, value>> pairs in    *)
(*     insertion order, with pairwise different keys.                      *)
(*   - The text of the story (the words appended to `sentence`) is output  *)
(*     only; no decision of the code reads it and it is not kept.          *)
(*   - last_roll is the local `roll` of generate_sample_story, 0 before    *)
(*     the first draw.                                                     *)
(***************************************************************************)
EXTENDS Integers, Sequences, FiniteSets, TLC

VARIABLES order, transitions, word_counts, trained, pc, max_dice_sides,
          dice_mappings, num_sentences, sentence_num, current_state, last_roll,
          raised

vars == <<order, transitions, word_counts, trained, pc, max_dice_sides,
          dice_mappings, num_sentences, sentence_num, current_state, last_roll,
          raised>>

(***************************************************************************)
(* Bounds of the model.                                                    *)
(***************************************************************************)
MaxTextLen == 3
MaxTrained == 2
MaxOrder == 2
MaxDie == 6
MaxCount == 3
MaxDistinct == 5
MaxSentences == 2

\* The characters texts are drawn from: a letter (upper case, so that
\* lower() acts), a separator the tokenizer discards, a sentence ending.
Chars == {"A", " ", "."}

RECURSIVE SeqsUpTo(_, _)
SeqsUpTo(S, n) ==
    IF n = 0 THEN {<<>>}
    ELSE LET shorter == SeqsUpTo(S, n - 1)
         IN  shorter \cup {Append(s, c) : s \in shorter, c \in S}

Texts == SeqsUpTo(Chars, MaxTextLen)

\* The argument of one train call: no text, one text, or one text twice.
TextLists == {<<>>} \cup {<<t>> : t \in Texts} \cup {<<t, t>> : t \in Texts}

(***************************************************************************)
(* Insertion-ordered dictionaries.                                         *)
(***************************************************************************)
Keys(d) == {d[i][1] : i \in DOMAIN d}

HasKey(d, k) == \E i \in DOMAIN d : d[i][1] = k

IndexOf(d, k) == CHOOSE i \in DOMAIN d : d[i][1] = k

Get(d, k) == d[IndexOf(d, k)][2]

\* d[k] = v: replaces the value in place, or appends a new last entry.
Put(d, k, v) ==
    IF HasKey(d, k)
    THEN [d EXCEPT ![IndexOf(d, k)] = <<k, v>>]
    ELSE Append(d, <<k, v>>)

\* Counter: c[k] += 1, a missing key counting 0.
Increment(c, k) == Put(c, k, (IF HasKey(c, k) THEN Get(c, k) ELSE 0) + 1)

(***************************************************************************)
(* clean_text: re.findall(r'\b[a-zA-Z]+\b|[.!?]', text.lower())            *)
(***************************************************************************)
Lower(c) ==
    CASE c = "A" -> "a"
      [] c = "B" -> "b"
      [] c = "T" -> "t"
      [] OTHER   -> c

LowerText(text) == [i \in DOMAIN text |-> Lower(text[i])]

IsLetter(c) == c \in {"a", "b", "e", "h", "t", "A", "B", "T"}

\* \w of the regular expression: letters, digits and underscore.
IsWordChar(c) == IsLetter(c) \/ c \in {"0", "1", "_"}

IsEnding(c) == c \in {".", "!", "?"}

\* The last index of the run of letters that starts at i.
RECURSIVE RunEnd(_, _)
RunEnd(text, i) ==
    IF i < Len(text) /\ IsLetter(text[i + 1]) THEN RunEnd(text, i + 1) ELSE i

\* \b holds between positions i and i+1 when exactly one side is a word
\* character (the outside of the text counting as a non-word character).
Boundary(text, i) ==
    LET left  == i >= 1 /\ IsWordChar(text[i])
        right == i < Len(text) /\ IsWordChar(text[i + 1])
    IN  left # right

\* The matches found scanning from position i.  A run of letters matches
\* only as a whole (no \b holds inside it) and only between two \b.
RECURSIVE FindAll(_, _)
FindAll(text, i) ==
    IF i > Len(text) THEN <<>>
    ELSE IF IsLetter(text[i]) /\ Boundary(text, i - 1)
              /\ Boundary(text, RunEnd(text, i))
         THEN <<SubSeq(text, i, RunEnd(text, i))>> \o FindAll(text, RunEnd(text, i) + 1)
    ELSE IF IsEnding(text[i])
         THEN <<<<text[i]>>>> \o FindAll(text, i + 1)
    ELSE FindAll(text, i + 1)

clean_text(text) == FindAll(LowerText(text), 1)

(***************************************************************************)
(* train                                                                   *)
(***************************************************************************)
\* A scan that stops one position early.
PositionsShort(words, ord) == 0 .. (Len(words) - ord - 2)

\* range(len(words) - self.order)
Positions(words, ord) == 0 .. (Len(words) - ord - 1)

\* words[i] when order = 1 (written <<words[i]>>), else tuple(words[i:i+order])
StateAt(words, ord, i) == SubSeq(words, i + 1, i + ord)

NextWordAt(words, ord, i) == words[i + ord + 1]

\* self.transitions[current_state][next_word] += 1 on a defaultdict(Counter)
Record(trans, state, next_word) ==
    Put(trans, state,
        Increment(IF HasKey(trans, state) THEN Get(trans, state) ELSE <<>>, next_word))

\* The inner loop over i, from position i on; tw = [transitions, word_counts].
RECURSIVE ScanWords(_, _, _, _)
ScanWords(tw, words, ord, i) ==
    IF i \notin Positions(words, ord) THEN tw
    ELSE ScanWords([t |-> Record(tw.t, StateAt(words, ord, i), NextWordAt(words, ord, i)),
                    w |-> Increment(tw.w, StateAt(words, ord, i))],
                   words, ord, i + 1)

\* The outer loop over texts, from text number n on.
RECURSIVE TrainTexts(_, _, _, _)
TrainTexts(tw, texts, ord, n) ==
    IF n > Len(texts) THEN tw
    ELSE TrainTexts(ScanWords(tw, clean_text(texts[n]), ord, 0), texts, ord, n + 1)

\* History of the token sequences trained on, as a bag (token sequence ->
\* number of times), kept for stating what the table must hold.
BagAdd(b, t) == IF t \in DOMAIN b THEN [b EXCEPT ![t] = @ + 1] ELSE b @@ (t :> 1)

RECURSIVE BagAddAll(_, _, _)
BagAddAll(b, texts, n) ==
    IF n > Len(texts) THEN b
    ELSE BagAddAll(BagAdd(b, clean_text(texts[n])), texts, n + 1)

RECURSIVE BagSize(_)
BagSize(b) ==
    IF DOMAIN b = {} THEN 0
    ELSE LET t == CHOOSE x \in DOMAIN b : TRUE
         IN  b[t] + BagSize([x \in DOMAIN b \ {t} |-> b[x]])

Train(texts) ==
    /\ pc = "ready"
    /\ BagSize(trained) + Len(texts) <= MaxTrained
    /\ LET tw == TrainTexts([t |-> transitions, w |-> word_counts], texts, order, 1)
       IN  /\ transitions' = tw.t
           /\ word_counts' = tw.w
    /\ trained' = BagAddAll(trained, texts, 1)
    /\ UNCHANGED <<order, pc, max_dice_sides, dice_mappings, num_sentences,
                   sentence_num, current_state, last_roll, raised>>

(***************************************************************************)
(* generate_dice_mapping and _create_single_die_mapping                    *)
(***************************************************************************)
\* The entry goes after every entry whose count is at least its own.
RECURSIVE InsertByCount(_, _, _)
InsertByCount(sorted, item, i) ==
    IF i > Len(sorted) \/ sorted[i][2] < item[2]
    THEN SubSeq(sorted, 1, i - 1) \o <<item>> \o SubSeq(sorted, i, Len(sorted))
    ELSE InsertByCount(sorted, item, i + 1)

\* A ranking that leaves the entries in insertion order.
InsertionOrder(counter) == counter

\* Counter.most_common(): sorted(items, key=count, reverse=True), a stable
\* sort, so entries of equal count keep their insertion order.
RECURSIVE SortFrom(_, _, _)
SortFrom(sorted, counter, i) ==
    IF i > Len(counter) THEN sorted
    ELSE SortFrom(InsertByCount(sorted, counter[i], 1), counter, i + 1)

most_common(counter) == SortFrom(<<>>, counter, 1)

\* common_words[:n], n >= 0
Prefix(s, n) == SubSeq(s, 1, IF n < Len(s) THEN n ELSE Len(s))

RECURSIVE SumCounts(_, _)
SumCounts(pairs, i) ==
    IF i > Len(pairs) THEN 0
    ELSE pairs[i][2] + SumCounts(pairs, i + 1)

\* round(n / m) for n >= 0, m > 0: to the nearest integer, a tie to the even
\* one.  The code rounds the float (count / total_count) * die_sides; for the
\* counts and die sizes drawn here that float rounds as the exact quotient.
Round(n, m) ==
    LET q == n \div m
        r == n % m
    IN  IF 2 * r < m THEN q
        ELSE IF 2 * r > m THEN q + 1
        ELSE IF q % 2 = 0 THEN q ELSE q + 1

\* sides_for_word = max(1, round(proportion * die_sides))
SidesForWord(count, total_count, die_sides) ==
    LET share == Round(count * die_sides, total_count)
    IN  IF share > 1 THEN share ELSE 1

\* An inner loop without the test current_roll <= die_sides.
RollRangeUncapped(current_roll, sides, die_sides) ==
    [j \in 1 .. sides |-> current_roll + j - 1]

\* The faces the inner loop appends: one per iteration while
\* current_roll <= die_sides.
RollRange(current_roll, sides, die_sides) ==
    LET last == IF current_roll + sides - 1 < die_sides
                THEN current_roll + sides - 1 ELSE die_sides
    IN  [j \in 1 .. (last - current_roll + 1) |-> current_roll + j - 1]

\* The loop over the (word, count) pairs from entry i on; a = [m |-> dice_mapping,
\* r |-> current_roll].
RECURSIVE AssignRolls(_, _, _, _, _)
AssignRolls(a, pairs, total_count, die_sides, i) ==
    IF i > Len(pairs) THEN a
    ELSE LET word       == pairs[i][1]
             sides      == SidesForWord(pairs[i][2], total_count, die_sides)
             roll_range == RollRange(a.r, sides, die_sides)
         IN  AssignRolls([m |-> IF roll_range # <<>> THEN Put(a.m, word, roll_range) ELSE a.m,
                          r |-> a.r + Len(roll_range)],
                         pairs, total_count, die_sides, i + 1)

\* A fill that hands the remaining faces to the last word of the ranking.
FillRemainingToLast(a, pairs, die_sides) ==
    IF a.r <= die_sides
    THEN LET last_word       == pairs[Len(pairs)][1]
             remaining_sides == [j \in 1 .. (die_sides - a.r + 1) |-> a.r + j - 1]
         IN  IF HasKey(a.m, last_word)
             THEN Put(a.m, last_word, Get(a.m, last_word) \o remaining_sides)
             ELSE Put(a.m, last_word, remaining_sides)
    ELSE a.m

\* "Fill remaining sides with most common word if needed"
FillRemaining(a, pairs, die_sides) ==
    IF a.r <= die_sides
    THEN LET most_common_word == pairs[1][1]
             remaining_sides  == [j \in 1 .. (die_sides - a.r + 1) |-> a.r + j - 1]
         IN  IF HasKey(a.m, most_common_word)
             THEN Put(a.m, most_common_word, Get(a.m, most_common_word) \o remaining_sides)
             ELSE Put(a.m, most_common_word, remaining_sides)
    ELSE a.m

create_single_die_mapping(pairs, die_sides) ==
    FillRemaining(AssignRolls([m |-> <<>>, r |-> 1], pairs,
                              SumCounts(pairs, 1), die_sides, 1),
                  pairs, die_sides)

\* The words handed to _create_single_die_mapping for one state: all of them,
\* or the first max_dice_sides of the ranking.
RetainedWords(next_words, die_sides) ==
    LET common_words == most_common(next_words)
    IN  IF Len(common_words) <= die_sides THEN common_words
        ELSE Prefix(common_words, die_sides)

generate_dice_mapping(trans, die_sides) ==
    [i \in DOMAIN trans |->
        <<trans[i][1], create_single_die_mapping(RetainedWords(trans[i][2], die_sides), die_sides)>>]

\* max_dice_sides is any integer from 0 (an invalid size) to MaxDie.
GenerateDiceMapping(die_sides) ==
    /\ pc = "ready"
    /\ max_dice_sides' = die_sides
    /\ dice_mappings' = generate_dice_mapping(transitions, die_sides)
    /\ pc' = "mapped"
    /\ UNCHANGED <<order, transitions, word_counts, trained, num_sentences,
                   sentence_num, current_state, last_roll, raised>>

(***************************************************************************)
(* generate_sample_story and _get_sentence_starter                         *)
(***************************************************************************)
Period == <<".">>

The == <<"t", "h", "e">>

\* starters = ['the', 'a', 'an', 'i', 'you', 'he', 'she', 'it', 'they', 'we']
Starters ==
    {The, <<"a">>, <<"a", "n">>, <<"i">>, <<"y", "o", "u">>, <<"h", "e">>,
     <<"s", "h", "e">>, <<"i", "t">>, <<"t", "h", "e", "y">>, <<"w", "e">>}

\* next_word in ['.', '!', '?']
IsTerminal(word) == word \in {<<".">>, <<"!">>, <<"?">>}

\* start_word absent: None, and every other falsy value (the empty tuple).
NoStart == <<>>

\* k != '.' is false only of the bare word '.', a key of an order-1 table.
IsPeriod(k) == order = 1 /\ k = <<Period>>

\* [k for k in dice_mappings.keys() if k != '.']
NonPeriodKeys(mappings) == {k \in Keys(mappings) : ~IsPeriod(k)}

\* [word for word in starters if word in dice_mappings]: a bare word is a
\* key only of an order-1 table.
AvailableStarters(mappings) ==
    {<<word>> : word \in {w \in Starters : order = 1 /\ <<w>> \in Keys(mappings)}}

\* The values _get_sentence_starter can return.
get_sentence_starter(mappings) ==
    IF AvailableStarters(mappings) # {} THEN AvailableStarters(mappings)
    ELSE IF NonPeriodKeys(mappings) # {} THEN NonPeriodKeys(mappings)
    ELSE {<<The>>}

\* random.randint(1, 6)
DieFaces == 6

Rolls == 1 .. DieFaces

Contains(rolls, roll) == \E j \in DOMAIN rolls : rolls[j] = roll

\* The words of word_mappings whose faces contain the roll.
WordsFor(word_mappings, roll) ==
    {i \in DOMAIN word_mappings : Contains(word_mappings[i][2], roll)}

\* The first word, in stored order, whose faces contain the roll.
NextWord(word_mappings, roll) ==
    LET first == CHOOSE i \in WordsFor(word_mappings, roll) :
                     \A j \in WordsFor(word_mappings, roll) : i <= j
    IN  word_mappings[first][1]

\* current_state = next_word when order = 1, else current_state[1:] + (next_word,)
Advanced(state, next_word) ==
    IF order = 1 THEN <<next_word>>
    ELSE SubSeq(state, 2, Len(state)) \o <<next_word>>

StartWords == {NoStart, <<The>>} \cup Keys(dice_mappings)

\* The call, up to the first test of the while loop.
GenerateSampleStory(start_word, n) ==
    /\ pc = "mapped"
    /\ \/ /\ start_word # NoStart
          /\ current_state' = start_word
          /\ pc' = IF n = 0 THEN "returned" ELSE "loop"
          /\ num_sentences' = n
          /\ UNCHANGED raised
       \/ /\ start_word = NoStart
          /\ NonPeriodKeys(dice_mappings) # {}
          /\ current_state' \in NonPeriodKeys(dice_mappings)
          /\ pc' = IF n = 0 THEN "returned" ELSE "loop"
          /\ num_sentences' = n
          /\ UNCHANGED raised
       \/ /\ start_word = NoStart
          /\ NonPeriodKeys(dice_mappings) = {}
          /\ raised' = "IndexError"
          /\ pc' = "raised"
          /\ UNCHANGED <<current_state, num_sentences>>
    /\ UNCHANGED <<order, transitions, word_counts, trained, max_dice_sides,
                   dice_mappings, sentence_num, last_roll>>

\* The sentence is appended to the story and the for loop goes on or ends.
EndSentence ==
    /\ sentence_num' = sentence_num + 1
    /\ pc' = IF sentence_num + 1 = num_sentences THEN "returned" ELSE "loop"
    /\ UNCHANGED <<order, transitions, word_counts, trained, max_dice_sides,
                   dice_mappings, num_sentences, raised>>

\* current_state not in dice_mappings: "force a sentence ending"
ForcedEnd ==
    /\ pc = "loop"
    /\ current_state \notin Keys(dice_mappings)
    /\ UNCHANGED <<current_state, last_roll>>
    /\ EndSentence

\* No word has the roll: if not next_word: sentence.append('.'); break
NoWordEnd(roll) ==
    /\ pc = "loop"
    /\ current_state \in Keys(dice_mappings)
    /\ WordsFor(Get(dice_mappings, current_state), roll) = {}
    /\ last_roll' = roll
    /\ UNCHANGED current_state
    /\ EndSentence

\* The roll gives a sentence ending: a new starter is picked.
TerminalEnd(roll) ==
    /\ pc = "loop"
    /\ current_state \in Keys(dice_mappings)
    /\ WordsFor(Get(dice_mappings, current_state), roll) # {}
    /\ IsTerminal(NextWord(Get(dice_mappings, current_state), roll))
    /\ last_roll' = roll
    /\ current_state' \in get_sentence_starter(dice_mappings)
    /\ EndSentence

\* The roll gives a word: the sentence goes on from the next state.
Advance(roll) ==
    /\ pc = "loop"
    /\ current_state \in Keys(dice_mappings)
    /\ WordsFor(Get(dice_mappings, current_state), roll) # {}
    /\ ~IsTerminal(NextWord(Get(dice_mappings, current_state), roll))
    /\ last_roll' = roll
    /\ current_state' = Advanced(current_state, NextWord(Get(dice_mappings, current_state), roll))
    /\ UNCHANGED <<order, transitions, word_counts, trained, pc, max_dice_sides,
                   dice_mappings, num_sentences, sentence_num, raised>>

SentenceEnd == ForcedEnd \/ \E roll \in Rolls : NoWordEnd(roll) \/ TerminalEnd(roll)

(***************************************************************************)
(* Specifications                                                          *)
(***************************************************************************)
\* The state after __init__(order); order 0 is an invalid order.
Init ==
    /\ order \in 0 .. MaxOrder
    /\ transitions = <<>>
    /\ word_counts = <<>>
    /\ trained = <<>>
    /\ pc = "ready"
    /\ max_dice_sides = 0
    /\ dice_mappings = <<>>
    /\ num_sentences = 0
    /\ sentence_num = 0
    /\ current_state = <<>>
    /\ last_roll = 0
    /\ raised = "none"

\* Training, any number of calls, on at most MaxTrained texts in all.
NextTrain ==
    /\ BagSize(trained) < MaxTrained
    /\ \E texts \in TextLists : Train(texts)

Next ==
    \/ NextTrain
    \/ \E die_sides \in 0 .. MaxDie : GenerateDiceMapping(die_sides)
    \/ \E start_word \in StartWords, n \in 0 .. MaxSentences :
           GenerateSampleStory(start_word, n)
    \/ ForcedEnd
    \/ \E roll \in Rolls : NoWordEnd(roll)
    \/ \E roll \in Rolls : TerminalEnd(roll)
    \/ \E roll \in Rolls : Advance(roll)

Spec == Init /\ [][Next]_vars

\* Every call returns control and the dice are fair: a sentence that can end
\* infinitely often does end.
FairSpec == Spec /\ WF_vars(Next) /\ SF_vars(SentenceEnd)

\* Training alone.
SpecTrain == Init /\ [][NextTrain]_vars

\* Training on texts made of a letter and the three sentence endings, and
\* building the die mapping of the table.
EndingChars == {"A", ".", "!", "?"}

EndingTextLists == {<<t>> : t \in SeqsUpTo(EndingChars, MaxTextLen)}

NextTrainEndings ==
    /\ BagSize(trained) < MaxTrained
    /\ \E texts \in EndingTextLists : Train(texts)

NextEndings ==
    \/ NextTrainEndings
    \/ \E die_sides \in 1 .. MaxDie : GenerateDiceMapping(die_sides)

SpecEndings == Init /\ [][NextEndings]_vars

\* The k-th of the words a, aa, aaa, ...
NthWord(k) == [j \in 1 .. k |-> "a"]

\* The Counter of one state: k words in first-seen order with their counts.
CounterOf(k, counts) == [i \in 1 .. k |-> <<NthWord(i), counts[i]>>]

RECURSIVE SumTo(_, _)
SumTo(counts, k) == IF k = 0 THEN 0 ELSE counts[k] + SumTo(counts, k - 1)

\* An order-1 generator trained on the two-word texts 'the a', 'the aa', ...,
\* each a number of times, in first-seen order a, aa, aaa, ...
InitAlloc ==
    /\ order = 1
    /\ \E k \in 1 .. MaxDistinct : \E counts \in [1 .. k -> 1 .. MaxCount] :
          /\ transitions = <<<<<<The>>, CounterOf(k, counts)>>>>
          /\ word_counts = <<<<<<The>>, SumTo(counts, k)>>>>
          /\ trained = [t \in {<<The, NthWord(i)>> : i \in 1 .. k} |-> counts[Len(t[2])]]
    /\ pc = "ready"
    /\ max_dice_sides = 0
    /\ dice_mappings = <<>>
    /\ num_sentences = 0
    /\ sentence_num = 0
    /\ current_state = <<>>
    /\ last_roll = 0
    /\ raised = "none"

NextAlloc == \E die_sides \in 0 .. MaxDie : GenerateDiceMapping(die_sides)

SpecAlloc == InitAlloc /\ [][NextAlloc]_vars

(***************************************************************************)
(* Properties                                                              *)
(***************************************************************************)
Mapped == pc = "mapped" /\ max_dice_sides >= 1

\* The generator and the mapping come from a valid configuration.
ValidConfig == order >= 1 /\ max_dice_sides >= 1

\* The places of a state's mapping that hold face f: <<word index, position>>.
PlacesOf(word_mappings, f) ==
    {<<i, j>> \in UNION {{i} \X DOMAIN word_mappings[i][2] : i \in DOMAIN word_mappings} :
        word_mappings[i][2][j] = f}

FacesIn(word_mappings) ==
    {word_mappings[i][2][j] : <<i, j>> \in
        UNION {{i} \X DOMAIN word_mappings[i][2] : i \in DOMAIN word_mappings}}

\* The words of the frequency table of entry i that generate_dice_mapping
\* retains, stated from the table: word x is retained when fewer than
\* max_dice_sides words rank above it (larger count, or the same count and
\* seen first).
RanksAbove(counter, y, x) ==
    counter[y][2] > counter[x][2] \/ (counter[y][2] = counter[x][2] /\ y < x)

TopWords(counter, n) ==
    {counter[x][1] : x \in {x \in DOMAIN counter :
        Cardinality({y \in DOMAIN counter : RanksAbove(counter, y, x)}) < n}}

\* C1: in every state of a mapping built with max_dice_sides >= 1, every face
\* of 1..max_dice_sides is held by exactly one word, exactly once, and no
\* other face is held.
C1_FacesPartition ==
    Mapped =>
        \A s \in DOMAIN dice_mappings :
            /\ FacesIn(dice_mappings[s][2]) = 1 .. max_dice_sides
            /\ \A f \in 1 .. max_dice_sides :
                   Cardinality(PlacesOf(dice_mappings[s][2], f)) = 1

\* The rounded shares of the retained words add up to more than the die has
\* faces, and the mapping is built.
C1_Witness ==
    /\ Mapped
    /\ \E s \in DOMAIN dice_mappings :
          Len(dice_mappings[s][2]) < Cardinality(TopWords(transitions[s][2], max_dice_sides))

\* C2: every retained word of a state holds at least one face.
C2_EveryRetainedWordHasFace ==
    Mapped =>
        \A s \in DOMAIN dice_mappings :
            \A word \in TopWords(transitions[s][2], max_dice_sides) :
                /\ HasKey(dice_mappings[s][2], word)
                /\ Get(dice_mappings[s][2], word) # <<>>

\* C3: for a state with more distinct next words than max_dice_sides, the
\* words of its mapping are exactly the top max_dice_sides words of the
\* ranking.
C3_TruncatedToTopWords ==
    Mapped =>
        \A s \in DOMAIN dice_mappings :
            Len(transitions[s][2]) > max_dice_sides =>
                Keys(dice_mappings[s][2]) = TopWords(transitions[s][2], max_dice_sides)

\* The smallest and the largest face of a list of rolls.
MinRoll(rolls) == CHOOSE f \in {rolls[j] : j \in DOMAIN rolls} :
                      \A j \in DOMAIN rolls : f <= rolls[j]

MaxRoll(rolls) == CHOOSE f \in {rolls[j] : j \in DOMAIN rolls} :
                      \A j \in DOMAIN rolls : f >= rolls[j]

\* C4: the faces of every word are one contiguous range: every face from its
\* smallest to its largest face is its own.
C4_ContiguousRanges ==
    Mapped =>
        \A s \in DOMAIN dice_mappings :
            \A i \in DOMAIN dice_mappings[s][2] :
                LET rolls == dice_mappings[s][2][i][2]
                IN  \A f \in MinRoll(rolls) .. MaxRoll(rolls) : Contains(rolls, f)

\* The count the table holds for next_word after state, 0 when absent.
CountIn(trans, state, next_word) ==
    IF HasKey(trans, state) /\ HasKey(Get(trans, state), next_word)
    THEN Get(Get(trans, state), next_word)
    ELSE 0

\* The number of positions i of words, 0 <= i < len(words) - order, with
\* words[i:i+order] = state and words[i+order] = next_word.
Occurrences(words, state, next_word) ==
    Cardinality({i \in 0 .. (Len(words) - order - 1) :
        /\ SubSeq(words, i + 1, i + order) = state
        /\ words[i + order + 1] = next_word})

RECURSIVE TotalOccurrences(_, _, _)
TotalOccurrences(b, state, next_word) ==
    IF DOMAIN b = {} THEN 0
    ELSE LET t == CHOOSE x \in DOMAIN b : TRUE
         IN  b[t] * Occurrences(t, state, next_word)
               + TotalOccurrences([x \in DOMAIN b \ {t} |-> b[x]], state, next_word)

\* Every window of order words of the trained texts, and every word of them.
WindowsOf(b) ==
    UNION {{SubSeq(t, i, i + order - 1) : i \in 1 .. (Len(t) - order + 1)} : t \in DOMAIN b}

WordsOf(b) == UNION {{t[i] : i \in DOMAIN t} : t \in DOMAIN b}

WellFormed(d) == \A i, j \in DOMAIN d : d[i][1] = d[j][1] => i = j

\* C5: with order >= 1, after any sequence of train calls the table holds,
\* for every state and next word, the number of positions of the trained
\* texts, each text scanned on its own, where that state is followed by that
\* word; it holds no other entry and no key twice.
C5_TableCountsOccurrences ==
    order >= 1 =>
        /\ WellFormed(transitions)
        /\ \A s \in DOMAIN transitions :
               /\ WellFormed(transitions[s][2])
               /\ \A n \in DOMAIN transitions[s][2] : transitions[s][2][n][2] >= 1
        /\ \A state \in Keys(transitions) \cup WindowsOf(trained) :
               \A next_word \in WordsOf(trained)
                                \cup UNION {Keys(transitions[s][2]) : s \in DOMAIN transitions} :
                   CountIn(transitions, state, next_word)
                       = TotalOccurrences(trained, state, next_word)

\* A text with two positions to count has been trained on twice.
C5_Witness ==
    /\ order >= 1
    /\ \E t \in DOMAIN trained :
          /\ trained[t] = 2
          /\ Len(t) >= order + 2
          /\ CountIn(transitions, SubSeq(t, 1, order), t[order + 1]) >= 2

\* C6: at a state of the mapping every roll the sampler can draw is a face of
\* 1..max_dice_sides and belongs to exactly one word, and every face of
\* 1..max_dice_sides can be drawn.
C6_RollSelectsOneWord ==
    (pc = "loop" /\ ValidConfig /\ current_state \in Keys(dice_mappings)) =>
        /\ \A roll \in Rolls :
               /\ roll \in 1 .. max_dice_sides
               /\ Cardinality(WordsFor(Get(dice_mappings, current_state), roll)) = 1
        /\ \A f \in 1 .. max_dice_sides : f \in Rolls

\* C7: once called on a mapping, generate_sample_story comes to an end, by returning the
\* story or by raising.
C7_StoryTerminates == (pc = "loop" /\ ValidConfig) ~> (pc \in {"returned", "raised"})

\* C8: whenever a sentence ends and another one follows, the state the next
\* sentence starts from is one the starter policy can pick (stated for the
\* mappings whose die has the faces the sampler rolls).
C8_NextSentenceStartsFresh ==
    [][(pc = "loop" /\ ValidConfig /\ max_dice_sides = DieFaces
           /\ pc' = "loop" /\ sentence_num' = sentence_num + 1)
          => current_state' \in get_sentence_starter(dice_mappings)]_vars

\* C9: an order below 1 leaves the transition table empty, and a die size
\* below 1 produces no die mapping.
C9_InvalidConfigurationRejected ==
    /\ order < 1 => transitions = <<>>
    /\ (pc # "ready" /\ max_dice_sides < 1) => dice_mappings = <<>>

\* C10: a story asked for without a start word from an empty mapping ends in
\* the failure 'no contexts available'.
C10_EmptyMappingFailure ==
    (pc = "raised" /\ ValidConfig /\ dice_mappings = <<>>) => raised = "no contexts available"

\* The indices of the frequency table that are retained for a die of n
\* faces, and the index that ranks first.
TopIndices(counter, n) ==
    {x \in DOMAIN counter :
        Cardinality({y \in DOMAIN counter : RanksAbove(counter, y, x)}) < n}

FirstRanked(counter) ==
    CHOOSE x \in DOMAIN counter : \A y \in DOMAIN counter : ~RanksAbove(counter, y, x)

RECURSIVE SumOver(_, _)
SumOver(f, S) ==
    IF S = {} THEN 0
    ELSE LET x == CHOOSE x \in S : TRUE IN f[x] + SumOver(f, S \ {x})

\* The share of a retained word: its count over the retained counts, times the
\* faces, rounded half to even, and at least 1.
ShareOf(counter, n) ==
    LET total == SumOver([x \in DOMAIN counter |-> counter[x][2]], TopIndices(counter, n))
    IN  [x \in DOMAIN counter |->
            IF Round(counter[x][2] * n, total) > 1 THEN Round(counter[x][2] * n, total) ELSE 1]

\* The number of faces a word holds in a word mapping, 0 when it is absent.
FacesOf(word_mappings, word) ==
    IF HasKey(word_mappings, word) THEN Len(Get(word_mappings, word)) ELSE 0

\* The faces the proportional pass leaves unassigned: those above the sum of
\* the shares of the retained words.
Unassigned(counter, n) ==
    (SumOver(ShareOf(counter, n), TopIndices(counter, n)) + 1) .. n

EachSeenOnce(counter, k) ==
    Len(counter) = k /\ \A x \in DOMAIN counter : counter[x][2] = 1

\* C11: when the proportional pass leaves faces unassigned, every one of them
\* is held by the first-ranked word and by no other word, and every other
\* retained word holds exactly its share; five words each seen once on a die
\* of 6 faces hold one face each except the first-ranked word, which holds two.
C11_RemainderFill ==
    Mapped =>
        \A s \in DOMAIN dice_mappings :
            LET counter == transitions[s][2]
                n       == max_dice_sides
                first   == FirstRanked(counter)
                top     == counter[first][1]
                share   == ShareOf(counter, n)
            IN  /\ Unassigned(counter, n) # {} =>
                      /\ \A f \in Unassigned(counter, n) :
                             \A i \in DOMAIN dice_mappings[s][2] :
                                 Contains(dice_mappings[s][2][i][2], f)
                                     <=> dice_mappings[s][2][i][1] = top
                      /\ \A x \in TopIndices(counter, n) \ {first} :
                             FacesOf(dice_mappings[s][2], counter[x][1]) = share[x]
                      /\ FacesOf(dice_mappings[s][2], top)
                             = share[first] + Cardinality(Unassigned(counter, n))
                /\ (EachSeenOnce(counter, 5) /\ n = 6) =>
                      /\ FacesOf(dice_mappings[s][2], top) = 2
                      /\ \A x \in DOMAIN counter \ {first} :
                             FacesOf(dice_mappings[s][2], counter[x][1]) = 1

\* A mapping for a die of 6 faces of a state followed by five words, each
\* seen once: the first word holds the faces 1 and 6.
C11_Witness ==
    /\ Mapped
    /\ max_dice_sides = 6
    /\ \E s \in DOMAIN dice_mappings :
          /\ EachSeenOnce(transitions[s][2], 5)
          /\ Get(dice_mappings[s][2], transitions[s][2][1][1]) = <<1, 6>>

\* The words of a context, and the words a table or a mapping holds as keys
\* and as next words.
WordsOfKeys(d) == UNION {{d[s][1][j] : j \in DOMAIN d[s][1]} : s \in DOMAIN d}

NextWordsOf(d) == UNION {Keys(d[s][2]) : s \in DOMAIN d}

Exclamation == <<"!">>

Question == <<"?">>

RECURSIVE SumOccurrences(_, _, _)
SumOccurrences(b, state, next_words) ==
    IF next_words = {} THEN 0
    ELSE LET w == CHOOSE w \in next_words : TRUE
         IN  TotalOccurrences(b, state, w) + SumOccurrences(b, state, next_words \ {w})

\* C12: with order >= 1, after training on any texts no word of a key and no
\* next word of the transition table or of the die mapping is '!' or '?', and
\* the count of '.' after a state is the number of positions of the trained
\* texts where that state is followed by '.', '!' or '?'.
C12_TerminalsCanonical ==
    order >= 1 =>
        /\ Exclamation \notin WordsOfKeys(transitions) \cup NextWordsOf(transitions)
        /\ Question \notin WordsOfKeys(transitions) \cup NextWordsOf(transitions)
        /\ Exclamation \notin WordsOfKeys(dice_mappings) \cup NextWordsOf(dice_mappings)
        /\ Question \notin WordsOfKeys(dice_mappings) \cup NextWordsOf(dice_mappings)
        /\ \A state \in Keys(transitions) \cup WindowsOf(trained) :
               CountIn(transitions, state, Period)
                   = SumOccurrences(trained, state, {Period, Exclamation, Question})

\* The lowest face a word holds in a word mapping.
LowestFace(word_mappings, word) == MinRoll(Get(word_mappings, word))

\* C13: in every mapping built with max_dice_sides >= 1, of two words of a
\* state's frequency table the one that ranks above (larger count, or the same
\* count and seen first) holds at least as many faces as the other, a word
\* without an entry counting as 0 faces, and when both hold faces its lowest
\* face is below the other's lowest face.
C13_MonotoneInRank ==
    Mapped =>
        \A s \in DOMAIN dice_mappings :
            LET counter == transitions[s][2]
                wm      == dice_mappings[s][2]
            IN  \A a, b \in DOMAIN counter :
                    RanksAbove(counter, a, b) =>
                        /\ FacesOf(wm, counter[a][1]) >= FacesOf(wm, counter[b][1])
                        /\ (FacesOf(wm, counter[a][1]) > 0 /\ FacesOf(wm, counter[b][1]) > 0)
                               => LowestFace(wm, counter[a][1]) < LowestFace(wm, counter[b][1])

\* A mapping of a table whose ranking differs from the order its words were
\* seen in, where the word seen first is left without a face and a word seen
\* later holds faces.
C13_Witness ==
    /\ Mapped
    /\ \E s \in DOMAIN dice_mappings :
          LET counter == transitions[s][2]
              wm      == dice_mappings[s][2]
          IN  /\ Len(counter) >= 3
              /\ RanksAbove(counter, 2, 1)
              /\ FacesOf(wm, counter[1][1]) = 0
              /\ FacesOf(wm, counter[2][1]) >= 2
              /\ \E x \in DOMAIN counter : FacesOf(wm, counter[x][1]) = 1

====
